---- MODULE Spec2Model ----
(***************************************************************************)
(* QGenericTreeBase<TKey, TValue, TContainer> (src/qgenerictreebase.h),    *)
(* instantiated with the ordered backend QMap (src/qorderedtree.h), int    *)
(* keys and int values.                                                    *)
(*                                                                         *)
(* The heap of NodeData records is modelled with node ids 1..MaxNodes that  *)
(* are handed out in order and never reused.  A QSharedPointer is a node   *)
(* id (NULL when empty), a QWeakPointer is a node id that only counts      *)
(* while the node is in `alive`.  A driver program owns the Tree `root`,   *)
(* the Node handles `hnd`, the WeakNodes `weak` and `weakSwap` and one     *)
(* iterator `iter`.                                                        *)
(***************************************************************************)
EXTENDS Integers, FiniteSets, Sequences

\* ------------------------------------------------------------------ bounds
MaxNodes == 4
MaxCalls == 3

\* ----------------------------------------------------------- program values
NULL == 0
NoValue == -1
DefaultKey == 0
\* what a query that never returns (unbounded recursion) is read as
NoReturn == -1

NodeIds == 1..MaxNodes
\* the int keys and values in use; the driver of Spec passes the DriverKeys
Keys == {0, 1, 2}
DriverKeys == {0, 1}
Values == {0, 1}
Handles == {"a", "b"}
\* what a call is made on: one of the handles, or tree.rootNode()
Receivers == Handles \cup {"tree"}

VARIABLES
    nodes,      \* number of NodeData records created so far
    alive,      \* NodeData records whose strong count is above zero
    parent,     \* NodeData::parent   (weak)
    children,   \* NodeData::children (key -> strong pointer, NULL: no entry)
    value,      \* NodeData::value    (NoValue: std::nullopt)
    root,       \* QGenericTreeBase::_root.d
    hnd,        \* the driver's Node handles (Node::d)
    weak,       \* the driver's WeakNode     (WeakNode::d)
    weakSwap,   \* the driver's second WeakNode, for swap
    iter,       \* the driver's iterator     (iterator_base::_node)
    pc,         \* "ready", or the call the driver never returned from
    calls       \* number of calls the driver has made

vars == <<nodes, alive, parent, children, value, root, hnd, weak, weakSwap, iter,
          pc, calls>>

EmptyMap == [k \in Keys |-> NULL]

\* ------------------------------------------------------------ the containers
SetMin(S) == CHOOSE x \in S : \A y \in S : x <= y
SetMax(S) == CHOOSE x \in S : \A y \in S : x >= y

\* the keys of a child map, and QMap's first()/last() (ascending key order)
ChildKeys(ch, n) == {k \in Keys : ch[n][k] # NULL}
First(ch, n) == ch[n][SetMin(ChildKeys(ch, n))]
Last(ch, n) == ch[n][SetMax(ChildKeys(ch, n))]

\* the keys under which p's child map holds n: what the scans
\* "for (it = begin; it != end; ++it) if (*it == d)" can find
KeysOf(ch, p, n) == {k \in Keys : ch[p][k] = n}

\* QWeakPointer::toStrongRef(), and its operator bool
toStrongRef(al, w) == IF w # NULL /\ w \in al THEN w ELSE NULL

\* --------------------------------------------------------- shared ownership
\* the strong pointers held outside the heap
External(rt, hs, it) == ({rt, it} \cup {hs[h] : h \in Handles}) \ {NULL}

\* a heap whose records outlive their last strong pointer
SweepNothing(S, ch, ext) == S

\* a heap in which a record also stays for as long as one of the records in
\* its child map does: a child that owns its parent
RECURSIVE SweepHeldByChild(_, _, _)
SweepHeldByChild(S, ch, ext) ==
    LET dead == {n \in S : /\ n \notin ext
                           /\ ~(\E m \in S : \E k \in Keys : ch[m][k] = n)
                           /\ \A k \in Keys : ch[n][k] \notin S}
    IN  IF dead = {} THEN S ELSE SweepHeldByChild(S \ dead, ch, ext)

\* QSharedPointer: a record dies when its last strong pointer goes, and its
\* child map, destroyed with it, lets go of the children
RECURSIVE Sweep(_, _, _)
Sweep(S, ch, ext) ==
    LET dead == {n \in S : n \notin ext /\ ~(\E m \in S : \E k \in Keys : ch[m][k] = n)}
    IN  IF dead = {} THEN S ELSE Sweep(S \ dead, ch, ext)

\* the state after a call: the destructors have run
CommitWeak(cnt, pa, ch, va, rt, hs, wk, ws, it) ==
    LET live == Sweep(alive \cup ((nodes + 1)..cnt), ch, External(rt, hs, it))
    IN  /\ pc' = "ready"
        /\ calls' = calls + 1
        /\ nodes' = cnt
        /\ root' = rt
        /\ hnd' = hs
        /\ weak' = wk
        /\ weakSwap' = ws
        /\ iter' = it
        /\ alive' = live
        /\ parent' = [n \in NodeIds |-> IF n \in live THEN pa[n] ELSE NULL]
        /\ children' = [n \in NodeIds |-> IF n \in live THEN ch[n] ELSE EmptyMap]
        /\ value' = [n \in NodeIds |-> IF n \in live THEN va[n] ELSE NoValue]

\* the state after a call that leaves the second WeakNode alone
Commit(cnt, pa, ch, va, rt, hs, wk, it) ==
    CommitWeak(cnt, pa, ch, va, rt, hs, wk, weakSwap, it)

\* the driver is between two calls and has calls left
Ready == pc = "ready" /\ calls < MaxCalls

Init ==
    /\ nodes = 1
    /\ alive = {1}
    /\ parent = [n \in NodeIds |-> NULL]
    /\ children = [n \in NodeIds |-> EmptyMap]
    /\ value = [n \in NodeIds |-> NoValue]
    /\ root = 1
    /\ hnd = [h \in Handles |-> NULL]
    /\ weak = NULL
    /\ weakSwap = NULL
    /\ iter = NULL
    /\ pc = "ready"
    /\ calls = 0

\* the NodeData a call is made on
Ref(r) == IF r = "tree" THEN root ELSE hnd[r]

\* ------------------------------------------------------------ Node handles
\* Node::Node(): a handle to a fresh NodeData
NodeCtor(dst) ==
    /\ Ready
    /\ nodes < MaxNodes
    /\ Commit(nodes + 1, parent, children, value, root,
              [hnd EXCEPT ![dst] = nodes + 1], weak, iter)

\* Node(const Node &) / Node &operator=(const Node &); from the tree it is
\* QGenericTreeBase::rootNode()
NodeCopy(dst, src) ==
    /\ Ready
    /\ Commit(nodes, parent, children, value, root,
              [hnd EXCEPT ![dst] = Ref(src)], weak, iter)

\* ConstNode::drop()
drop(h) ==
    /\ Ready
    /\ Commit(nodes, parent, children, value, root,
              [hnd EXCEPT ![h] = NULL], weak, iter)

\* Node::setValue(value)
setValue(h, v) ==
    /\ Ready
    /\ Ref(h) # NULL
    /\ Commit(nodes, parent, children, [value EXCEPT ![Ref(h)] = v], root,
              hnd, weak, iter)

\* a clearValue that takes the node out of its parent as well
clearValueUnlink(h) ==
    /\ Ready
    /\ Ref(h) # NULL
    /\ Commit(nodes, parent,
              [p \in NodeIds |-> [k \in Keys |->
                  IF children[p][k] = Ref(h) THEN NULL ELSE children[p][k]]],
              [value EXCEPT ![Ref(h)] = NoValue], root, hnd, weak, iter)

\* Node::clearValue()
clearValue(h) ==
    /\ Ready
    /\ Ref(h) # NULL
    /\ Commit(nodes, parent, children, [value EXCEPT ![Ref(h)] = NoValue], root,
              hnd, weak, iter)

\* a child lookup that inserts the child it does not find
childCreating(h, k, dst) ==
    /\ Ready
    /\ Ref(h) # NULL
    /\ IF children[Ref(h)][k] = NULL /\ nodes < MaxNodes
       THEN Commit(nodes + 1, [parent EXCEPT ![nodes + 1] = Ref(h)],
                   [children EXCEPT ![Ref(h)][k] = nodes + 1], value, root,
                   [hnd EXCEPT ![dst] = nodes + 1], weak, iter)
       ELSE Commit(nodes, parent, children, value, root,
                   [hnd EXCEPT ![dst] = children[Ref(h)][k]], weak, iter)

\* Node::child(key)
child(h, k, dst) ==
    /\ Ready
    /\ Ref(h) # NULL
    /\ Commit(nodes, parent, children, value, root,
              [hnd EXCEPT ![dst] = children[Ref(h)][k]], weak, iter)

\* Node::parent()
parentOf(h, dst) ==
    /\ Ready
    /\ Ref(h) # NULL
    /\ Commit(nodes, parent, children, value, root,
              [hnd EXCEPT ![dst] = toStrongRef(alive, parent[Ref(h)])], weak, iter)

\* Node::operator[](key): the child at key, created when missing
operatorIndex(h, k, dst) ==
    /\ Ready
    /\ Ref(h) # NULL
    /\ LET d == Ref(h)
           c == nodes + 1
       IN  IF children[d][k] # NULL
           THEN Commit(nodes, parent, children, value, root,
                       [hnd EXCEPT ![dst] = children[d][k]], weak, iter)
           ELSE /\ nodes < MaxNodes
                /\ Commit(c, [parent EXCEPT ![c] = d],
                          [children EXCEPT ![d][k] = c], value, root,
                          [hnd EXCEPT ![dst] = c], weak, iter)

\* the statement  node[key] = v;  operator[] and operator=(TAssign &&) on the
\* temporary it returns
indexAssign(h, k, v) ==
    /\ Ready
    /\ Ref(h) # NULL
    /\ LET d == Ref(h)
           c == nodes + 1
       IN  IF children[d][k] # NULL
           THEN Commit(nodes, parent, children,
                       [value EXCEPT ![children[d][k]] = v], root, hnd, weak, iter)
           ELSE /\ nodes < MaxNodes
                /\ Commit(c, [parent EXCEPT ![c] = d],
                          [children EXCEPT ![d][k] = c],
                          [value EXCEPT ![c] = v], root, hnd, weak, iter)

\* Node::emplaceChild(key): a fresh child, whatever was at key
emplaceChild(h, k, dst) ==
    /\ Ready
    /\ Ref(h) # NULL
    /\ nodes < MaxNodes
    /\ LET d == Ref(h)
           c == nodes + 1
       IN  Commit(c, [parent EXCEPT ![c] = d], [children EXCEPT ![d][k] = c],
                  value, root, [hnd EXCEPT ![dst] = c], weak, iter)

\* Node::insertChild(key, child)
insertChild(h, k, c) ==
    /\ Ready
    /\ Ref(h) # NULL
    /\ Ref(c) # NULL
    /\ LET d == Ref(h)
           x == Ref(c)
       IN  Commit(nodes, [parent EXCEPT ![x] = d], [children EXCEPT ![d][k] = x],
                  value, root, hnd, weak, iter)

\* Node::takeChild(key)
takeChild(h, k, dst) ==
    /\ Ready
    /\ Ref(h) # NULL
    /\ LET d == Ref(h)
           c == children[d][k]
       IN  Commit(nodes,
                  IF c # NULL THEN [parent EXCEPT ![c] = NULL] ELSE parent,
                  [children EXCEPT ![d][k] = NULL],
                  value, root, [hnd EXCEPT ![dst] = c], weak, iter)

\* a removeChild that empties the whole child map
removeChildAll(h, k) ==
    /\ Ready
    /\ Ref(h) # NULL
    /\ Commit(nodes, parent, [children EXCEPT ![Ref(h)] = EmptyMap],
              value, root, hnd, weak, iter)

\* what Node::removeChild(key) returns: "children.remove(key) > 0"
removeChildReturns(ch, n, k) == Cardinality({j \in {k} : ch[n][j] # NULL}) > 0

\* Node::removeChild(key)
removeChild(h, k) ==
    /\ Ready
    /\ Ref(h) # NULL
    /\ Commit(nodes, parent, [children EXCEPT ![Ref(h)][k] = NULL],
              value, root, hnd, weak, iter)

\* Node::clearChildren()
clearChildren(h) ==
    /\ Ready
    /\ Ref(h) # NULL
    /\ Commit(nodes, parent, [children EXCEPT ![Ref(h)] = EmptyMap],
              value, root, hnd, weak, iter)

\* ConstNode::detach()
detach(h) ==
    /\ Ready
    /\ Ref(h) # NULL
    /\ LET d == Ref(h)
           p == toStrongRef(alive, parent[d])
       IN  IF p = NULL \/ KeysOf(children, p, d) = {}
           THEN Commit(nodes, parent, children, value, root, hnd, weak, iter)
           ELSE Commit(nodes, [parent EXCEPT ![d] = NULL],
                       [children EXCEPT ![p][SetMin(KeysOf(children, p, d))] = NULL],
                       value, root, hnd, weak, iter)

\* --------------------------------------------------------------- WeakNode
\* Node::toWeakNode()
toWeakNode(h) ==
    /\ Ready
    /\ Ref(h) # NULL
    /\ Commit(nodes, parent, children, value, root, hnd, Ref(h), iter)

\* WeakNode::operator bool
weakBool == toStrongRef(alive, weak) # NULL

\* WeakNode::toNode()
toNode(dst) ==
    /\ Ready
    /\ Commit(nodes, parent, children, value, root,
              [hnd EXCEPT ![dst] = toStrongRef(alive, weak)], weak, iter)

\* the same two on the second WeakNode
toWeakNodeSwap(h) ==
    /\ Ready
    /\ Ref(h) # NULL
    /\ CommitWeak(nodes, parent, children, value, root, hnd, weak, Ref(h), iter)
toNodeSwap(dst) ==
    /\ Ready
    /\ Commit(nodes, parent, children, value, root,
              [hnd EXCEPT ![dst] = toStrongRef(alive, weakSwap)], weak, iter)

\* a swap that exchanges the values of the two records and not the pointers
swapValues(x, y) ==
    /\ Ready
    /\ hnd[x] # NULL
    /\ hnd[y] # NULL
    /\ Commit(nodes, parent, children,
              [value EXCEPT ![hnd[x]] = value[hnd[y]], ![hnd[y]] = value[hnd[x]]],
              root, hnd, weak, iter)

\* swap(Node &lhs, Node &rhs): "lhs.d.swap(rhs.d)"
swap(x, y) ==
    /\ Ready
    /\ Commit(nodes, parent, children, value, root,
              [hnd EXCEPT ![x] = hnd[y], ![y] = hnd[x]], weak, iter)

\* swap(WeakNode &lhs, WeakNode &rhs): "lhs.d.swap(rhs.d)"
swapWeak ==
    /\ Ready
    /\ CommitWeak(nodes, parent, children, value, root, hnd, weakSwap, weak, iter)

\* ------------------------------------------------------------------- Tree
\* a clear that gives the tree a new root record
clearFresh ==
    /\ Ready
    /\ nodes < MaxNodes
    /\ Commit(nodes + 1, parent, children, value, nodes + 1, hnd, weak, iter)

\* QGenericTreeBase::clear(): "_root.clearValue(); _root.clearChildren()"
clear ==
    /\ Ready
    /\ Commit(nodes, parent, [children EXCEPT ![root] = EmptyMap],
              [value EXCEPT ![root] = NoValue], root, hnd, weak, iter)

\* ---------------------------------------------------------- node queries
\* ConstNode::containsChild(key), ConstNode::childCount()
containsChild(ch, n, k) == ch[n][k] # NULL
childCount(ch, n) == Cardinality(ChildKeys(ch, n))

\* NodeData::depth(): one level per live parent link; on a cycle of parent
\* links the recursion never ends
RECURSIVE depthRec(_, _, _, _)
depthRec(al, pa, n, fuel) ==
    LET p == toStrongRef(al, pa[n])
    IN  IF p = NULL THEN 0
        ELSE IF fuel = 0 THEN NoReturn
        ELSE LET d == depthRec(al, pa, p, fuel - 1)
             IN  IF d = NoReturn THEN NoReturn ELSE d + 1
depth(al, pa, n) == depthRec(al, pa, n, MaxNodes)

\* NodeData::key(): the parent's key chain followed by the first key under
\* which the parent holds the node; empty without a parent, and empty when
\* the parent does not hold the node
RECURSIVE keyRec(_, _, _, _, _)
keyRec(al, pa, ch, n, fuel) ==
    LET p == toStrongRef(al, pa[n])
    IN  IF p = NULL THEN <<>>
        ELSE IF KeysOf(ch, p, n) = {} THEN <<>>
        ELSE IF fuel = 0 THEN <<NoReturn>>
        ELSE LET up == keyRec(al, pa, ch, p, fuel - 1)
             IN  IF up = <<NoReturn>> THEN up
                 ELSE Append(up, SetMin(KeysOf(ch, p, n)))
key(al, pa, ch, n) == keyRec(al, pa, ch, n, MaxNodes)

\* ConstNode::subKey()
subKey(al, pa, ch, n) ==
    LET p == toStrongRef(al, pa[n])
    IN  IF p = NULL THEN DefaultKey
        ELSE IF KeysOf(ch, p, n) = {} THEN DefaultKey
        ELSE SetMin(KeysOf(ch, p, n))

\* the nodes below n along child-map entries
RECURSIVE Below(_, _, _)
Below(ch, S, fuel) ==
    LET T == S \cup ({ch[m][k] : m \in S, k \in Keys} \ {NULL})
    IN  IF T = S \/ fuel = 0 THEN S ELSE Below(ch, T, fuel - 1)
Descendants(ch, n) == Below(ch, {ch[n][k] : k \in Keys} \ {NULL}, MaxNodes)

\* --------------------------------------------------------------- iterator
\* What a call on the iterator comes to: "ok" with the new _node, "hang" when
\* the call never returns, "ub" when it runs into Q_UNREACHABLE.
Outcome(kind, n) == [kind |-> kind, node |-> n]

\* operator++, third step: the "forever" loop that climbs to the next sibling.
\* A node that its parent's child map does not hold leaves _node as it is, so
\* the next round is the same round again (Q_ASSERT(_node == parent) fails).
RECURSIVE incLoop(_, _, _, _, _)
incLoop(al, pa, ch, n, fuel) ==
    LET p == toStrongRef(al, pa[n])
    IN  IF p = NULL THEN Outcome("ok", n)
        ELSE IF KeysOf(ch, p, n) = {} \/ fuel = 0 THEN Outcome("hang", n)
        ELSE LET k == SetMin(KeysOf(ch, p, n))
                 later == {j \in ChildKeys(ch, p) : j > k}
             IN  IF later # {} THEN Outcome("ok", ch[p][SetMin(later)])
                 ELSE incLoop(al, pa, ch, p, fuel - 1)

\* an operator++ that never steps down into the children
incrementSkipChildren(al, pa, ch, n) ==
    IF toStrongRef(al, pa[n]) = NULL THEN Outcome("ok", n)
    ELSE incLoop(al, pa, ch, n, MaxNodes)

\* iterator_base::operator++()
increment(al, pa, ch, n) ==
    IF toStrongRef(al, pa[n]) = NULL THEN Outcome("ok", n)
    ELSE IF ChildKeys(ch, n) # {} THEN Outcome("ok", First(ch, n))
    ELSE incLoop(al, pa, ch, n, MaxNodes)

\* "while (!_node->children.empty()) _node = _node->children.last();"
RECURSIVE deepestLast(_, _, _)
deepestLast(ch, n, fuel) ==
    IF ChildKeys(ch, n) = {} THEN Outcome("ok", n)
    ELSE IF fuel = 0 THEN Outcome("hang", n)
    ELSE deepestLast(ch, Last(ch, n), fuel - 1)

\* an operator-- that stops at the previous sibling instead of its deepest
\* last descendant
decrementToSibling(al, pa, ch, n) ==
    LET p == toStrongRef(al, pa[n])
    IN  IF p = NULL THEN deepestLast(ch, n, MaxNodes)
        ELSE IF KeysOf(ch, p, n) = {} THEN Outcome("ub", n)
        ELSE LET k == SetMin(KeysOf(ch, p, n))
                 earlier == {j \in ChildKeys(ch, p) : j < k}
             IN  IF earlier # {} THEN Outcome("ok", ch[p][SetMax(earlier)])
                 ELSE IF toStrongRef(al, pa[p]) # NULL THEN Outcome("ok", p)
                 ELSE Outcome("ok", n)

\* an operator-- that steps from the first child up to its parent even when
\* that parent is the root
decrementToParent(al, pa, ch, n) ==
    LET p == toStrongRef(al, pa[n])
    IN  IF p = NULL THEN deepestLast(ch, n, MaxNodes)
        ELSE IF KeysOf(ch, p, n) = {} THEN Outcome("ub", n)
        ELSE LET k == SetMin(KeysOf(ch, p, n))
                 earlier == {j \in ChildKeys(ch, p) : j < k}
             IN  IF earlier # {} THEN deepestLast(ch, ch[p][SetMax(earlier)], MaxNodes)
                 ELSE Outcome("ok", p)

\* iterator_base::operator--()
decrement(al, pa, ch, n) ==
    LET p == toStrongRef(al, pa[n])
    IN  IF p = NULL THEN deepestLast(ch, n, MaxNodes)
        ELSE IF KeysOf(ch, p, n) = {} THEN Outcome("ub", n)
        ELSE LET k == SetMin(KeysOf(ch, p, n))
                 earlier == {j \in ChildKeys(ch, p) : j < k}
             IN  IF earlier # {} THEN deepestLast(ch, ch[p][SetMax(earlier)], MaxNodes)
                 ELSE IF toStrongRef(al, pa[p]) # NULL THEN Outcome("ok", p)
                 ELSE Outcome("ok", n)

\* a begin() that is end() on every tree
beginNodeRoot(ch, rt) == rt

\* a begin() that is not end() on a tree without children
beginNodeApart(ch, rt) == IF ChildKeys(ch, rt) # {} THEN First(ch, rt) ELSE NULL

\* QGenericTreeBase::begin()
beginNode(ch, rt) == IF ChildKeys(ch, rt) # {} THEN First(ch, rt) ELSE rt

\* QGenericTreeBase::end()
endNode(rt) == rt

\* the driver never gets the call back
Stuck(call) ==
    /\ pc' = call
    /\ calls' = calls + 1
    /\ UNCHANGED <<nodes, alive, parent, children, value, root, hnd, weak, weakSwap, iter>>

\* it = tree.begin()
begin ==
    /\ Ready
    /\ Commit(nodes, parent, children, value, root, hnd, weak, beginNode(children, root))

\* it = tree.end()
end ==
    /\ Ready
    /\ Commit(nodes, parent, children, value, root, hnd, weak, endNode(root))

\* ++it
operatorInc ==
    /\ Ready
    /\ iter # NULL
    /\ LET r == increment(alive, parent, children, iter)
       IN  IF r.kind = "ok"
           THEN Commit(nodes, parent, children, value, root, hnd, weak, r.node)
           ELSE Stuck("operator++")

\* --it; past Q_UNREACHABLE anything may come back, or nothing
operatorDec ==
    /\ Ready
    /\ iter # NULL
    /\ LET r == decrement(alive, parent, children, iter)
       IN  CASE r.kind = "ok" ->
                  Commit(nodes, parent, children, value, root, hnd, weak, r.node)
             [] r.kind = "hang" -> Stuck("operator--")
             [] OTHER ->
                  \/ Stuck("operator--")
                  \/ \E n \in alive :
                        Commit(nodes, parent, children, value, root, hnd, weak, n)

\* iterator_base::node()
iterNode(dst) ==
    /\ Ready
    /\ iter # NULL
    /\ Commit(nodes, parent, children, value, root,
              [hnd EXCEPT ![dst] = iter], weak, iter)

\* a count that ignores valueOnly
RECURSIVE countLoopAll(_, _, _, _, _, _, _, _)
countLoopAll(al, pa, ch, va, rt, valueOnly, n, fuel) ==
    IF n = endNode(rt) THEN 0
    ELSE LET r == increment(al, pa, ch, n)
         IN  IF r.kind # "ok" \/ fuel = 0 THEN NoReturn
             ELSE LET rest == countLoopAll(al, pa, ch, va, rt, valueOnly, r.node, fuel - 1)
                  IN  IF rest = NoReturn THEN NoReturn ELSE rest + 1

\* QGenericTreeBase::countElements(valueOnly): "for (it = begin(); it != end();
\* ++it)"; the loop is over when it meets end(), and never if it does not
RECURSIVE countLoop(_, _, _, _, _, _, _, _)
countLoop(al, pa, ch, va, rt, valueOnly, n, fuel) ==
    IF n = endNode(rt) THEN 0
    ELSE LET r == increment(al, pa, ch, n)
         IN  IF r.kind # "ok" \/ fuel = 0 THEN NoReturn
             ELSE LET rest == countLoop(al, pa, ch, va, rt, valueOnly, r.node, fuel - 1)
                  IN  IF rest = NoReturn THEN NoReturn
                      ELSE rest + (IF ~valueOnly \/ va[n] # NoValue THEN 1 ELSE 0)
countElementsOf(al, pa, ch, va, rt, valueOnly) ==
    countLoop(al, pa, ch, va, rt, valueOnly, beginNode(ch, rt), MaxNodes)

\* ConstNode::hasValue()
hasValue(va, n) == va[n] # NoValue

\* iterator_base::operator bool(): "_node && _node->value"
iterBool(va, n) == n # NULL /\ va[n] # NoValue

\* iterator_base::key() and subKey(): those of a Node on the iterator's node
iterKey(al, pa, ch, n) == key(al, pa, ch, n)
iterSubKey(al, pa, ch, n) == subKey(al, pa, ch, n)

\* n = tree.countElements(valueOnly)
countElements(valueOnly) ==
    /\ Ready
    /\ IF countElementsOf(alive, parent, children, value, root, valueOnly) = NoReturn
       THEN Stuck("countElements")
       ELSE Commit(nodes, parent, children, value, root, hnd, weak, iter)

\* ------------------------------------------------------ paths and clone
\* the key sequences the driver passes
DriverPaths == UNION {[1..l -> DriverKeys] : l \in 0..2}

\* a lookup that stops at the last node it found
RECURSIVE findNearest(_, _, _)
findNearest(ch, n, path) ==
    IF path = <<>> THEN n
    ELSE LET fChild == ch[n][Head(path)]
         IN  IF fChild = NULL THEN n ELSE findNearest(ch, fChild, Tail(path))

\* NodeData::find(keys, index, current): the node the keys lead to from n,
\* NULL as soon as a key has no entry
RECURSIVE find(_, _, _)
find(ch, n, path) ==
    IF path = <<>> THEN n
    ELSE LET fChild == ch[n][Head(path)]
         IN  IF fChild = NULL THEN NULL ELSE find(ch, fChild, Tail(path))

\* dst = h.findChild(path)
findChild(h, path, dst) ==
    /\ Ready
    /\ Ref(h) # NULL
    /\ Commit(nodes, parent, children, value, root,
              [hnd EXCEPT ![dst] = find(children, Ref(h), path)], weak, iter)

\* dst = tree.find(path): "_root.findChild(keys)"
treeFind(path, dst) ==
    /\ Ready
    /\ Commit(nodes, parent, children, value, root,
              [hnd EXCEPT ![dst] = find(children, root, path)], weak, iter)

\* tree.contains(path) and tree.contains(key)
contains(ch, rt, path) == find(ch, rt, path) # NULL
containsKey(ch, rt, k) == containsChild(ch, rt, k)

\* Tree::operator[](const QList<TKey>&): "cNode = _root; for (subKey : key)
\* cNode = cNode[subKey]", each step Node::operator[] on the node before
RECURSIVE indexWalk(_, _, _, _, _)
indexWalk(cnt, pa, ch, cNode, path) ==
    IF path = <<>> THEN [cnt |-> cnt, pa |-> pa, ch |-> ch, node |-> cNode]
    ELSE IF ch[cNode][Head(path)] # NULL
         THEN indexWalk(cnt, pa, ch, ch[cNode][Head(path)], Tail(path))
         ELSE indexWalk(cnt + 1, [pa EXCEPT ![cnt + 1] = cNode],
                        [ch EXCEPT ![cNode][Head(path)] = cnt + 1],
                        cnt + 1, Tail(path))

\* dst = tree[path] on a mutable tree
indexPath(path, dst) ==
    /\ Ready
    /\ nodes + Len(path) <= MaxNodes
    /\ LET r == indexWalk(nodes, parent, children, root, path)
       IN  Commit(r.cnt, r.pa, r.ch, value, root,
                  [hnd EXCEPT ![dst] = r.node], weak, iter)

\* dst = h[k] on a ConstNode: "return child(key)"
constIndex(h, k, dst) == child(h, k, dst)

\* the calls h.containsChild(k), tree.contains(path) and tree.contains(k),
\* which hand a bool back
callContainsChild(h, k) ==
    /\ Ready
    /\ Ref(h) # NULL
    /\ Commit(nodes, parent, children, value, root, hnd, weak, iter)
callContains ==
    /\ Ready
    /\ Commit(nodes, parent, children, value, root, hnd, weak, iter)

\* the key sequences that lead somewhere from n, followed as NodeData::clone
\* follows them: one per NodeData it creates. clone() recurses into every
\* child; a sequence longer than any chain of distinct records means that the
\* recursion has no end.
RECURSIVE SubPathsRec(_, _, _)
SubPathsRec(ch, n, fuel) ==
    {<<>>} \cup
    (IF fuel = 0 THEN {}
     ELSE UNION {{<<k>> \o rest : rest \in SubPathsRec(ch, ch[n][k], fuel - 1)} :
                    k \in ChildKeys(ch, n)})
SubPaths(ch, n) == SubPathsRec(ch, n, MaxNodes)

\* the order in which clone() creates the copies: a node before its children,
\* the children in the order of the child map
PathLess(p, q) ==
    \E i \in 1..Len(q) :
        /\ \A j \in 1..(i - 1) : j <= Len(p) /\ p[j] = q[j]
        /\ (i > Len(p) \/ p[i] < q[i])

\* a clone() that copies the NodeData alone and shares the children
cloneShallow(h, dst) ==
    /\ Ready
    /\ Ref(h) # NULL
    /\ nodes < MaxNodes
    /\ Commit(nodes + 1, parent,
              [children EXCEPT ![nodes + 1] = children[Ref(h)]],
              [value EXCEPT ![nodes + 1] = value[Ref(h)]],
              root, [hnd EXCEPT ![dst] = nodes + 1], weak, iter)

\* Node::clone() / ConstNode::clone() over NodeData::clone(); from the tree
\* it is QGenericTreeBase::clone(), dst holding the new tree's root
clone(h, dst) ==
    /\ Ready
    /\ Ref(h) # NULL
    /\ LET n == Ref(h)
           P == SubPaths(children, n)
           id(path) == nodes + 1 + Cardinality({q \in P : PathLess(q, path)})
           of(m) == CHOOSE path \in P : id(path) = m
           made == {id(path) : path \in P}
       IN  IF \E path \in P : Len(path) = MaxNodes
           THEN Stuck("clone")
           ELSE /\ nodes + Cardinality(P) <= MaxNodes
                /\ Commit(nodes + Cardinality(P),
                          [m \in NodeIds |->
                              IF m \notin made THEN parent[m]
                              ELSE IF of(m) = <<>> THEN NULL
                              ELSE id(SubSeq(of(m), 1, Len(of(m)) - 1))],
                          [m \in NodeIds |->
                              IF m \notin made THEN children[m]
                              ELSE [k \in Keys |->
                                      IF Append(of(m), k) \in P
                                      THEN id(Append(of(m), k)) ELSE NULL]],
                          [m \in NodeIds |->
                              IF m \notin made THEN value[m]
                              ELSE value[find(children, n, of(m))]],
                          root, [hnd EXCEPT ![dst] = nodes + 1], weak, iter)

\* tree = QGenericTreeBase::makeTree(node). Q_ASSERT_X(!node.parent()) ends
\* the program in a build with assertions and is no code at all in a build
\* without them. (The root that the default-constructed tree had for the
\* length of the call takes no node id.)
makeTree(h) ==
    /\ Ready
    /\ Ref(h) # NULL
    /\ \/ Commit(nodes, parent, children, value, Ref(h), hnd, weak, iter)
       \/ /\ toStrongRef(alive, parent[Ref(h)]) # NULL
          /\ Stuck("makeTree")

\* TValue{} for the int values of the Demo
DefaultValue == 0

\* ConstNode::value(defaultValue): std::optional::value_or
valueOr(va, n, d) == IF va[n] # NoValue THEN va[n] ELSE d

\* x = node.value(d)
callValue(h, d) ==
    /\ Ready
    /\ Ref(h) # NULL
    /\ valueOr(value, Ref(h), d) \in Values
    /\ Commit(nodes, parent, children, value, root, hnd, weak, iter)

\* what Node::takeValue() returns
takeValueReturns(va, n) == IF va[n] # NoValue THEN va[n] ELSE DefaultValue

\* a takeValue() that leaves the value in its place
takeValueKeep(h) ==
    /\ Ready
    /\ Ref(h) # NULL
    /\ Commit(nodes, parent, children, value, root, hnd, weak, iter)

\* x = node.takeValue()
takeValue(h) ==
    /\ Ready
    /\ Ref(h) # NULL
    /\ Commit(nodes, parent, children,
              IF value[Ref(h)] # NoValue THEN [value EXCEPT ![Ref(h)] = NoValue]
              ELSE value,
              root, hnd, weak, iter)

\* node = v: Node::operator=(TAssign &&)
operatorAssign(h, v) ==
    /\ Ready
    /\ Ref(h) # NULL
    /\ Commit(nodes, parent, children, [value EXCEPT ![Ref(h)] = v], root,
              hnd, weak, iter)

\* a Node::operator*() that is the ConstNode's
derefConst(va, n) == va

\* Node::operator*(): the values after the call, which emplaces a value where
\* there is none
deref(va, n) == IF va[n] = NoValue THEN [va EXCEPT ![n] = DefaultValue] ELSE va

\* x = *node, on a Node
operatorStar(h) ==
    /\ Ready
    /\ Ref(h) # NULL
    /\ Commit(nodes, parent, children, deref(value, Ref(h)), root, hnd, weak, iter)

\* a "*node = x" that has no effect on a node without a value
starAssignPresent(h, x) ==
    /\ Ready
    /\ Ref(h) # NULL
    /\ Commit(nodes, parent, children,
              IF value[Ref(h)] # NoValue THEN [value EXCEPT ![Ref(h)] = x] ELSE value,
              root, hnd, weak, iter)

\* *node = x, on a Node: the assignment to the reference operator*() returns
starAssign(h, x) ==
    /\ Ready
    /\ Ref(h) # NULL
    /\ Commit(nodes, parent, children,
              [deref(value, Ref(h)) EXCEPT ![Ref(h)] = x], root, hnd, weak, iter)

\* "*(value)" of a std::optional that may be empty: with a value the call
\* returns it; without one the behaviour is undefined, and the call returns
\* whatever the storage holds or, in a hardened build, ends the program
optionalStar(n) ==
    \/ Commit(nodes, parent, children, value, root, hnd, weak, iter)
    \/ /\ value[n] = NoValue
       /\ Stuck("operator*")

\* x = *node, on a ConstNode
constStar(h) ==
    /\ Ready
    /\ Ref(h) # NULL
    /\ optionalStar(Ref(h))

\* x = *it
iterStar ==
    /\ Ready
    /\ iter # NULL
    /\ optionalStar(iter)

\* an operator== that compares what operator bool gives
operatorEqBool(x, y) == (x # NULL) = (y # NULL)

\* Node::operator==(other) and ConstNode::operator==(other): "d == other.d"
operatorEq(x, y) == x = y

Next ==
    \/ \E dst \in Handles : NodeCtor(dst)
    \/ \E dst \in Handles, src \in Receivers : NodeCopy(dst, src)
    \/ \E h \in Handles : drop(h)
    \/ \E h \in Receivers, v \in Values : setValue(h, v)
    \/ \E h \in Receivers : clearValue(h)
    \/ \E h \in Receivers, dst \in Handles, k \in DriverKeys : child(h, k, dst)
    \/ \E h \in Receivers, dst \in Handles : parentOf(h, dst)
    \/ \E h \in Receivers, dst \in Handles, k \in DriverKeys : operatorIndex(h, k, dst)
    \/ \E h \in Receivers, k \in DriverKeys, v \in Values : indexAssign(h, k, v)
    \/ \E h \in Receivers, dst \in Handles, k \in DriverKeys : emplaceChild(h, k, dst)
    \/ \E h, c \in Receivers, k \in DriverKeys : insertChild(h, k, c)
    \/ \E h \in Receivers, dst \in Handles, k \in DriverKeys : takeChild(h, k, dst)
    \/ \E h \in Receivers, k \in DriverKeys : removeChild(h, k)
    \/ \E h \in Receivers : clearChildren(h)
    \/ \E h \in Receivers : detach(h)
    \/ \E h \in Receivers, dst \in Handles : clone(h, dst)
    \/ \E h \in Receivers : toWeakNode(h)
    \/ \E dst \in Handles : toNode(dst)
    \/ clear
    \/ \E h \in Handles : makeTree(h)
    \/ begin
    \/ end
    \/ operatorInc
    \/ operatorDec
    \/ \E dst \in Handles : iterNode(dst)
    \/ \E valueOnly \in BOOLEAN : countElements(valueOnly)

Spec == Init /\ [][Next]_vars

\* ------------------------------------------------- traversal of built trees
\* The trees that n - 1 calls of node[key] on a missing key build
\* (Node::operator[] creates the child under its parent): node ids in the
\* order of creation, every node under one (parent, key).
RECURSIVE BuiltTrees(_)
BuiltTrees(n) ==
    IF n = 1
    THEN {[pa |-> [i \in NodeIds |-> NULL], ch |-> [i \in NodeIds |-> EmptyMap]]}
    ELSE {[pa |-> [t.pa EXCEPT ![n] = s[1]], ch |-> [t.ch EXCEPT ![s[1]][s[2]] = n]] :
            <<t, s>> \in {<<u, x>> \in BuiltTrees(n - 1) \X ((1..(n - 1)) \X Keys) :
                             u.ch[x[1]][x[2]] = NULL}}

\* a QOrderedTree built that way, with node[key] = v for most nodes and
\* node[key] alone for the third one, which has no value,
\* before the driver touches its iterator
InitIter ==
    \E n \in NodeIds : \E t \in BuiltTrees(n) :
        /\ nodes = n
        /\ alive = 1..n
        /\ parent = t.pa
        /\ children = t.ch
        /\ value = [i \in NodeIds |->
                       IF i \in 1..n /\ i % 3 # 0 THEN i % 2 ELSE NoValue]
        /\ root = 1
        /\ hnd = [h \in Handles |-> NULL]
        /\ weak = NULL
        /\ weakSwap = NULL
        /\ iter = NULL
        /\ pc = "ready"
        /\ calls = 0

NextIter ==
    \/ begin
    \/ end
    \/ operatorInc
    \/ operatorDec
    \/ iterNode("a")
    \/ clearValue("a")
    \/ \E valueOnly \in BOOLEAN : countElements(valueOnly)
    \/ clear

SpecIter == InitIter /\ [][NextIter]_vars

\* ------------------------------------------------- a driver that looks up
\* the driver builds a graph with operator[], assignment, insertChild and
\* the index by path, and looks nodes up in it
NextLookup ==
    \/ \E h \in Receivers, dst \in Handles, k \in DriverKeys : operatorIndex(h, k, dst)
    \/ \E h \in Receivers, k \in DriverKeys, v \in Values : indexAssign(h, k, v)
    \/ \E h, c \in Receivers, k \in DriverKeys : insertChild(h, k, c)
    \/ \E h \in Receivers, dst \in Handles, k \in DriverKeys : child(h, k, dst)
    \/ \E h \in Handles, path \in DriverPaths, dst \in Handles : findChild(h, path, dst)
    \/ \E path \in DriverPaths, dst \in Handles : treeFind(path, dst)
    \/ \E h \in Receivers, k \in DriverKeys : callContainsChild(h, k)
    \/ callContains
    \/ \E path \in DriverPaths, dst \in Handles : indexPath(path, dst)

SpecLookup == Init /\ [][NextLookup]_vars

\* ---------------------------------------------------- a driver that swaps
\* testNodeChildren: "testNode = 1; swapNode = 2; weakTest =
\* testNode.toWeakNode(); weakSwap = swapNode.toWeakNode()" next to an empty
\* tree, before the driver swaps
InitSwap ==
    /\ nodes = 3
    /\ alive = {1, 2, 3}
    /\ parent = [n \in NodeIds |-> NULL]
    /\ children = [n \in NodeIds |-> EmptyMap]
    /\ value = [n \in NodeIds |-> IF n = 2 THEN 0 ELSE IF n = 3 THEN 1 ELSE NoValue]
    /\ root = 1
    /\ hnd = [h \in Handles |-> IF h = "a" THEN 2 ELSE 3]
    /\ weak = 2
    /\ weakSwap = 3
    /\ iter = NULL
    /\ pc = "ready"
    /\ calls = 0

\* the driver swaps handles and WeakNodes, resolves the WeakNodes, drops
\* handles, and makes nodes, values and children
NextSwap ==
    \/ \E dst \in Handles : NodeCtor(dst)
    \/ \E h \in Handles, v \in Values : setValue(h, v)
    \/ \E h \in Receivers, dst \in Handles, k \in DriverKeys : operatorIndex(h, k, dst)
    \/ \E h \in Handles : drop(h)
    \/ \E h \in Handles : toWeakNode(h)
    \/ \E h \in Handles : toWeakNodeSwap(h)
    \/ \E dst \in Handles : toNode(dst)
    \/ \E dst \in Handles : toNodeSwap(dst)
    \/ \E x, y \in Handles : swap(x, y)
    \/ swapWeak

SpecSwap == InitSwap /\ [][NextSwap]_vars

\* A tree after "a = tree[0]; a = 1; b = tree[1]": a root without a value
\* with two children, the first with a value and the second without, and a
\* handle on each.
InitValue ==
    /\ nodes = 3
    /\ alive = {1, 2, 3}
    /\ parent = [n \in NodeIds |-> IF n \in {2, 3} THEN 1 ELSE NULL]
    /\ children = [n \in NodeIds |->
                      IF n = 1 THEN [k \in Keys |-> IF k = 0 THEN 2 ELSE IF k = 1 THEN 3 ELSE NULL]
                      ELSE EmptyMap]
    /\ value = [n \in NodeIds |-> IF n = 2 THEN 1 ELSE NoValue]
    /\ root = 1
    /\ hnd = [h \in Handles |-> IF h = "a" THEN 2 ELSE 3]
    /\ weak = NULL
    /\ weakSwap = NULL
    /\ iter = NULL
    /\ pc = "ready"
    /\ calls = 0

\* the driver reads, writes, takes and clears values through its handles and
\* through the iterator
NextValue ==
    \/ \E h \in Handles, v \in Values : setValue(h, v)
    \/ \E h \in Handles, v \in Values : operatorAssign(h, v)
    \/ \E h \in Handles : takeValue(h)
    \/ \E h \in Handles : clearValue(h)
    \/ \E h \in Handles, d \in Values : callValue(h, d)
    \/ \E h \in Handles, x \in Values : starAssign(h, x)
    \/ \E h \in Handles : operatorStar(h)
    \/ \E h \in Handles : constStar(h)
    \/ iterStar
    \/ begin
    \/ operatorInc
    \/ \E h \in Receivers, dst \in Handles, k \in DriverKeys : operatorIndex(h, k, dst)

SpecValue == InitValue /\ [][NextValue]_vars

\* ------------------------------------------------------------------ claims
\* the nodes some strong pointer leads to: a handle, the tree's root, the
\* iterator, or an entry in the child map of a live node
HasStrongPath(n) ==
    \/ n \in External(root, hnd, iter)
    \/ \E m \in alive : \E k \in Keys : children[m][k] = n

\* C1: position consistency. For live nodes n and p, n's parent link refers
\* to p if and only if exactly one entry of p's child map targets n, and then
\* no other node's child map targets n.
C1_PositionConsistency ==
    \A n \in alive : \A p \in alive :
        /\ (toStrongRef(alive, parent[n]) = p) <=> (Cardinality(KeysOf(children, p, n)) = 1)
        /\ (toStrongRef(alive, parent[n]) = p) =>
               \A q \in alive \ {p} : KeysOf(children, q, n) = {}

\* C2: acyclicity. No node is reachable from itself along one or more
\* child-map entries.
C2_Acyclic == \A n \in alive : n \notin Descendants(children, n)

\* C3: WeakNode liveness. The WeakNode taken from n is truthy and toNode() is
\* n exactly in the states in which a strong path to n exists; without one
\* it is falsy, toNode() is falsy, and it stays falsy for as long as the
\* WeakNode is kept.
C3_WeakTracksLiveness ==
    weak # NULL =>
        IF HasStrongPath(weak)
        THEN weakBool /\ toStrongRef(alive, weak) = weak
        ELSE ~weakBool /\ toStrongRef(alive, weak) = NULL
C3_Step ==
    /\ C3_WeakTracksLiveness
    /\ C3_WeakTracksLiveness'
    /\ (weak # NULL /\ ~weakBool /\ weak' = weak) => ~weakBool'
    /\ \A dst \in Handles :
          (toNode(dst) /\ weak # NULL) =>
              hnd'[dst] = (IF HasStrongPath(weak) THEN weak ELSE NULL)
C3_WeakNodeLiveness == [][C3_Step]_vars

\* C3 witness: the last strong path to the observed node is gone
C3_Witness == weak # NULL /\ ~weakBool /\ ~HasStrongPath(weak)

\* the nodes that ++ visits from begin() until it meets end()
RECURSIVE Walk(_, _)
Walk(n, fuel) ==
    IF n = endNode(root) THEN <<>>
    ELSE LET r == increment(alive, parent, children, n)
         IN  IF r.kind # "ok" \/ fuel = 0 THEN <<NoReturn>>
             ELSE <<n>> \o Walk(r.node, fuel - 1)
Forward == Walk(beginNode(children, root), MaxNodes)

\* depth-first pre-order below n: each child in ascending key order, the
\* child first and then all that is below it
RECURSIVE PreOrderBelow(_, _, _)
PreOrderBelow(n, ks, fuel) ==
    IF ks = {} \/ fuel = 0 THEN <<>>
    ELSE LET k == SetMin(ks)
             c == children[n][k]
         IN  <<c>> \o PreOrderBelow(c, ChildKeys(children, c), fuel - 1)
                   \o PreOrderBelow(n, ks \ {k}, fuel)
PreOrder == PreOrderBelow(root, ChildKeys(children, root), MaxNodes)

C6_IteratorCallsReturn == pc = "ready"

\* C7: upsert by index. After p[k] = v on a p without a child at k: p has a
\* child at k, its value is v, its parent is p, its depth is p's plus one,
\* its subKey is k, and p has one child more; p[k] on an existing child
\* returns that child and creates nothing.
C7_Created(h, k, v) ==
    LET p == Ref(h)
        c == children'[p][k]
    IN  /\ containsChild(children', p, k)
        /\ c \notin alive
        /\ value'[c] = v
        /\ toStrongRef(alive', parent'[c]) = p
        /\ depth(alive', parent', p) # NoReturn
        /\ depth(alive', parent', c) = depth(alive', parent', p) + 1
        /\ subKey(alive', parent', children', c) = k
        /\ childCount(children', p) = childCount(children, p) + 1
C7_Step ==
    /\ \A h \in Receivers : \A k \in Keys : \A v \in Values :
          (indexAssign(h, k, v) /\ ~containsChild(children, Ref(h), k))
              => C7_Created(h, k, v)
    /\ \A h \in Receivers : \A k \in Keys : \A dst \in Handles :
          (operatorIndex(h, k, dst) /\ containsChild(children, Ref(h), k))
              => (hnd'[dst] = children[Ref(h)][k] /\ nodes' = nodes)
C7_UpsertByIndex == [][C7_Step]_vars

\* value, child map and parent link of every node in S are as before the step
Untouched(S) ==
    \A m \in S :
        /\ m \in alive'
        /\ value'[m] = value[m]
        /\ children'[m] = children[m]
        /\ parent'[m] = parent[m]

\* C8: insertChild reparents. After p.insertChild(k, n): n's parent is p, p's
\* child at k is n, n's subKey is k, n's key is p's key followed by k, n's
\* depth is p's plus one, n's value and subtree are as before, and the node
\* that was at k before is no child of p any more (and gone when nothing
\* else refers to it).
C8_Inserted(h, k, c) ==
    LET p == Ref(h)
        n == Ref(c)
        old == children[p][k]
    IN  /\ toStrongRef(alive', parent'[n]) = p
        /\ children'[p][k] = n
        /\ subKey(alive', parent', children', n) = k
        /\ key(alive', parent', children', p) # <<NoReturn>>
        /\ key(alive', parent', children', n) = Append(key(alive', parent', children', p), k)
        /\ depth(alive', parent', p) # NoReturn
        /\ depth(alive', parent', n) = depth(alive', parent', p) + 1
        /\ value'[n] = value[n]
        /\ children'[n] = children[n]
        /\ Untouched(Descendants(children, n))
        /\ (old # NULL /\ old # n) => KeysOf(children', p, old) = {}
        /\ (old # NULL /\ old # n /\ ~HasStrongPath(old)') => old \notin alive'
C8_Step ==
    \A h \in Receivers : \A c \in Receivers : \A k \in Keys :
        insertChild(h, k, c) => C8_Inserted(h, k, c)
C8_InsertChildReparents == [][C8_Step]_vars

\* C9: detach. For n the child at key k of p, after n.detach(): p has no
\* child at k, n has no parent, depth 0 and an empty key, n's value, child
\* map and descendants are as before, and so are p's other children;
\* detach() on a node without a parent changes nothing.
C9_Detached(h) ==
    LET n == Ref(h)
        p == toStrongRef(alive, parent[n])
    IN  /\ p = NULL => (Untouched(alive) /\ alive' = alive)
        /\ (p # NULL /\ KeysOf(children, p, n) # {}) =>
             /\ \A k \in KeysOf(children, p, n) : ~containsChild(children', p, k)
             /\ toStrongRef(alive', parent'[n]) = NULL
             /\ depth(alive', parent', n) = 0
             /\ key(alive', parent', children', n) = <<>>
             /\ value'[n] = value[n]
             /\ children'[n] = children[n]
             /\ Untouched(Descendants(children, n))
             /\ \A k \in Keys : children[p][k] # n => children'[p][k] = children[p][k]
C9_Step == \A h \in Receivers : detach(h) => C9_Detached(h)
C9_Detach == [][C9_Step]_vars

\* C10: takeChild. For c the child of p at key k, p.takeChild(k) returns c;
\* afterwards p has no child at k, c has no parent, depth 0, the default
\* subKey and an empty key, and c's subtree is as before. Without a child at
\* k it returns a falsy Node and p's child map is as before.
C10_Taken(h, k, dst) ==
    LET p == Ref(h)
        c == children[p][k]
    IN  IF c = NULL
        THEN /\ hnd'[dst] = NULL
             /\ (dst # h => children'[p] = children[p])
        ELSE /\ hnd'[dst] = c
             /\ (dst # h => ~containsChild(children', p, k))
             /\ toStrongRef(alive', parent'[c]) = NULL
             /\ depth(alive', parent', c) = 0
             /\ subKey(alive', parent', children', c) = DefaultKey
             /\ key(alive', parent', children', c) = <<>>
             /\ value'[c] = value[c]
             /\ children'[c] = children[c]
             /\ Untouched(Descendants(children, c) \ {c})
C10_Step ==
    \A h \in Receivers : \A k \in Keys : \A dst \in Handles :
        takeChild(h, k, dst) => C10_Taken(h, k, dst)
C10_TakeChild == [][C10_Step]_vars

\* C11: clone is a deep structural copy. c = n.clone() returns, c is not n,
\* c has no parent, no NodeData of c's subtree existed before, the two
\* subtrees have equally many nodes, and along every key path from the
\* subtree root the copy has a node exactly where the source has one, with
\* the same value and child count and a parent link to the copy of the parent.
C11_Cloned(h, dst) ==
    LET n == Ref(h)
        c == hnd'[dst]
        Dn == {n} \cup Descendants(children, n)
        Dc == {c} \cup Descendants(children', c)
    IN  /\ pc' = "ready"
        /\ c # NULL
        /\ c # n
        /\ toStrongRef(alive', parent'[c]) = NULL
        /\ Dc \cap alive = {}
        /\ Cardinality(Dc) = Cardinality(Dn)
        /\ \A path \in SubPaths(children, n) \cup SubPaths(children', c) :
              LET x == find(children, n, path)
                  y == find(children', c, path)
              IN  /\ x = NULL <=> y = NULL
                  /\ x # NULL =>
                        /\ value'[y] = value[x]
                        /\ childCount(children', y) = childCount(children, x)
                        /\ path # <<>> =>
                              toStrongRef(alive', parent'[y])
                                  = find(children', c, SubSeq(path, 1, Len(path) - 1))
C11_Step ==
    \A h \in Receivers : \A dst \in Handles : clone(h, dst) => C11_Cloned(h, dst)
C11_CloneIsDeepCopy == [][C11_Step]_vars

\* the nodes tied to n by child-map entries and parent links, in either
\* direction
RECURSIVE Tied(_, _)
Tied(S, fuel) ==
    LET more == S \cup {m \in alive :
                    \E q \in S : \/ toStrongRef(alive, parent[q]) = m
                                 \/ toStrongRef(alive, parent[m]) = q
                                 \/ KeysOf(children, q, m) # {}
                                 \/ KeysOf(children, m, q) # {}}
    IN  IF more = S \/ fuel = 0 THEN S ELSE Tied(more, fuel - 1)
Component(n) == IF n = NULL THEN {} ELSE Tied({n}, MaxNodes)

\* the step left every NodeData as it was: none created, none destroyed,
\* no value, child map or parent link changed
HeapSame ==
    /\ nodes' = nodes
    /\ alive' = alive
    /\ value' = value
    /\ children' = children
    /\ parent' = parent

\* value, child map and parent link of the nodes of S that are still there
\* are as before the step
Kept(S) ==
    \A m \in S \cap alive' :
        /\ value'[m] = value[m]
        /\ children'[m] = children[m]
        /\ parent'[m] = parent[m]

\* a call on x (with argument y) touches nothing that is not tied to x or y
Local(x, y) ==
    /\ Kept(alive \ (Component(x) \cup Component(y)))
    /\ alive \ (Component(x) \cup Component(y)) \subseteq alive'

\* C12: clone independence. clone() changes no node that existed before, the
\* nodes it creates have no child entry or parent link to or from the nodes
\* that existed before, and setValue, clearValue, operator[], insertChild,
\* removeChild and detach change no node that is not tied to the node they
\* are called on (or the node they are given): not one of the source when
\* called on the clone, not one of the clone when called on the source.
C12_CloneStep(h, dst) ==
    LET made == (nodes + 1)..nodes'
        old == alive' \ made
    IN  /\ Kept(alive)
        /\ hnd[dst] = NULL => alive \subseteq alive'
        /\ \A m \in made : \A k \in Keys :
              /\ parent'[m] \in made \cup {NULL}
              /\ children'[m][k] \in made \cup {NULL}
        /\ \A m \in old : \A k \in Keys :
              /\ parent'[m] \notin made
              /\ children'[m][k] \notin made
C12_Step ==
    \/ HeapSame
    \/ /\ \A h \in Receivers : \A dst \in Handles :
             clone(h, dst) => C12_CloneStep(h, dst)
       /\ \A h \in Receivers :
             /\ \A v \in Values : setValue(h, v) => Local(Ref(h), NULL)
             /\ clearValue(h) => Local(Ref(h), NULL)
             /\ detach(h) => Local(Ref(h), NULL)
             /\ \A k \in DriverKeys :
                   /\ removeChild(h, k) => Local(Ref(h), NULL)
                   /\ \A v \in Values : indexAssign(h, k, v) => Local(Ref(h), NULL)
                   /\ \A dst \in Handles :
                         operatorIndex(h, k, dst) =>
                             Kept(alive \ Component(Ref(h)))
                   /\ \A c \in Receivers :
                         insertChild(h, k, c) => Local(Ref(h), Ref(c))
C12_CloneIndependence == [][C12_Step]_vars

\* C12 witness: the tree was cloned (only clone() creates several nodes in
\* one call) and the clone's child removed; the source still has its child
\* and the child's value
C12_Witness ==
    /\ calls = 3
    /\ nodes = 4
    /\ alive = {1, 2, 3}
    /\ children[root][0] = 2
    /\ value[2] = 1
    /\ hnd["a"] = 3
    /\ ChildKeys(children, 3) = {}

\* C13: Tree root invariant. The tree's root is truthy, has no parent, an
\* empty key path and depth 0.
C13_RootInvariant ==
    /\ root # NULL
    /\ root \in alive
    /\ toStrongRef(alive, parent[root]) = NULL
    /\ key(alive, parent, children, root) = <<>>
    /\ depth(alive, parent, root) = 0

\* C14: the lone root. On a tree whose root has no children begin() is end(),
\* so iterating from begin() to end() emits no node, the root included, and
\* countElements is 0 with or without valueOnly, whether or not the root
\* holds a value.
C14_LoneRootNotEmitted ==
    ChildKeys(children, root) = {} =>
        /\ beginNode(children, root) = endNode(root)
        /\ Forward = <<>>
        /\ countElementsOf(alive, parent, children, value, root, FALSE) = 0
        /\ countElementsOf(alive, parent, children, value, root, TRUE) = 0

\* C14 as the specification words it: the iteration over a tree without
\* children emits the root once, so a value on the root is seen and counted
C14_LoneRootEmitted ==
    (ChildKeys(children, root) = {} /\ value[root] # NoValue) =>
        /\ Forward = <<root>>
        /\ countElementsOf(alive, parent, children, value, root, TRUE) = 1

\* C14 witness: the root has a value and no children, and begin() was called
C14_Witness ==
    /\ ChildKeys(children, root) = {}
    /\ value[root] # NoValue
    /\ iter = root
    /\ calls = 2

C16_Valued == LET fw == Forward IN {i \in 1..Len(fw) : value[fw[i]] # NoValue}
C16_Step ==
    \/ iter' # iter
    \/ hnd' # hnd
    \/ (\E valueOnly \in BOOLEAN : countElements(valueOnly)) =>
          LET all == countElementsOf(alive, parent, children, value, root, FALSE)
              valued == countElementsOf(alive, parent, children, value, root, TRUE)
          IN  /\ pc' = "ready"
              /\ all = Len(Forward)
              /\ valued = Cardinality(C16_Valued)
              /\ valued <= all
              /\ HeapSame
              /\ root' = root
C16_CountElements == [][C16_Step]_vars

\* C16 witness: countElements has returned on a tree in which some emitted
\* node has a value and some other has none
C16_Witness ==
    /\ calls = 1
    /\ pc = "ready"
    /\ iter = NULL
    /\ C16_Valued # {}
    /\ Cardinality(C16_Valued) < Len(Forward)

\* C17: value holes are still visited. Clearing the value of a node other
\* than the root leaves the sequence of nodes emitted from begin() to end()
\* and the key path of each of them as they were, and makes the iterator
\* falsy there; at every emitted position the iterator is truthy exactly
\* when the node has a value, key() is the path that leads from the root to
\* the node, subKey() is the last key of that path, and node() is a
\* non-null handle to that node.
RECURSIVE C17_Walk(_, _, _, _, _, _)
C17_Walk(al, pa, ch, rt, n, fuel) ==
    IF n = endNode(rt) THEN <<>>
    ELSE LET r == increment(al, pa, ch, n)
         IN  IF r.kind # "ok" \/ fuel = 0 THEN <<NoReturn>>
             ELSE <<n>> \o C17_Walk(al, pa, ch, rt, r.node, fuel - 1)
C17_Position(al, pa, ch, va, rt, n) ==
    /\ iterBool(va, n) = hasValue(va, n)
    /\ LET k == iterKey(al, pa, ch, n)
       IN  /\ k # <<>>
           /\ k # <<NoReturn>>
           /\ find(ch, rt, k) = n
           /\ iterSubKey(al, pa, ch, n) = k[Len(k)]
C17_Step ==
    LET fw == Forward
    IN  /\ \A i \in 1..Len(fw) :
              C17_Position(alive, parent, children, value, root, fw[i])
        /\ (iterNode("a") /\ \E i \in 1..Len(fw) : fw[i] = iter) =>
               /\ hnd'["a"] = iter
               /\ hnd'["a"] # NULL
        /\ (clearValue("a") /\ Ref("a") # root
                             /\ \E i \in 1..Len(fw) : fw[i] = Ref("a")) =>
               /\ pc' = "ready"
               /\ C17_Walk(alive', parent', children', root',
                           beginNode(children', root'), MaxNodes) = fw
               /\ \A i \in 1..Len(fw) :
                      /\ iterKey(alive', parent', children', fw[i])
                            = iterKey(alive, parent, children, fw[i])
                      /\ C17_Position(alive', parent', children', value', root', fw[i])
               /\ ~iterBool(value', Ref("a"))
C17_ValueHolesVisited == [][C17_Step]_vars

\* C17 witness: the value of the first emitted node, which had one and has a
\* child, has been cleared through the iterator's node, and the node is still
\* the first one emitted, before its child
C17_Witness ==
    /\ Len(Forward) >= 2
    /\ hnd["a"] = Forward[1]
    /\ iter = Forward[1]
    /\ depth(alive, parent, Forward[2]) = 2
    /\ Forward[1] % 3 # 0
    /\ value[Forward[1]] = NoValue
    /\ calls = 3

\* C18: path lookup. n.findChild(path) returns the node that successive
\* child lookups along path reach from n, and a null Node as soon as one
\* segment is missing; tree.find(path) is rootNode().findChild(path),
\* tree.contains(path) is true exactly when find(path) is non-null, and
\* tree.contains(k) is rootNode().containsChild(k).
RECURSIVE C18_Reach(_, _)
C18_Reach(n, path) ==
    IF path = <<>> THEN n
    ELSE LET before == C18_Reach(n, SubSeq(path, 1, Len(path) - 1))
         IN  IF before = NULL THEN NULL ELSE children[before][path[Len(path)]]
C18_Step ==
    \/ root' # root
    \/ iter' # iter
    \/ /\ \A path \in DriverPaths :
             contains(children, root, path) <=> (C18_Reach(root, path) # NULL)
       /\ \A k \in Keys :
             containsKey(children, root, k) <=> (children[root][k] # NULL)
       /\ \A path \in DriverPaths : \A dst \in Handles :
             /\ \/ pc' = "ready" /\ hnd'[dst] = C18_Reach(root, path)
                \/ ~treeFind(path, dst)
             /\ \A h \in Handles :
                   \/ pc' = "ready" /\ hnd'[dst] = C18_Reach(Ref(h), path)
                   \/ ~findChild(h, path, dst)
C18_PathLookup == [][C18_Step]_vars

\* C18 witness: both handles hold the grandchild of the root that lies on
\* the path <<0, 1>>; three calls get there only if the last one is a lookup
C18_Witness ==
    /\ calls = 3
    /\ hnd["a"] # NULL
    /\ hnd["b"] = hnd["a"]
    /\ children[root][0] \notin {NULL, hnd["a"]}
    /\ children[children[root][0]][1] = hnd["a"]
    /\ find(children, root, <<0, 1>>) = hnd["b"]
    /\ find(children, root, <<1, 0>>) = NULL
    /\ find(children, hnd["b"], <<0>>) = NULL

\* C19: read-only lookups never create. child(key), the index of a read-only
\* node, containsChild, findChild, tree.find and tree.contains return, add
\* no node and no child entry and change no value and no parent link,
\* whether or not the key or path exists (a node goes only when the handle
\* that receives the result was the last to hold it); a lookup that fails
\* hands back a null Node.
C19_Frame(dst) ==
    /\ pc' = "ready"
    /\ nodes' = nodes
    /\ Kept(alive)
    /\ hnd[dst] = NULL => HeapSame
C19_Step ==
    \/ root' # root
    \/ iter' # iter
    \/ /\ \A dst \in Handles :
             /\ \A h \in Receivers : \A k \in DriverKeys :
                   /\ child(h, k, dst) =>
                         /\ C19_Frame(dst)
                         /\ children[Ref(h)][k] = NULL => hnd'[dst] = NULL
                   /\ constIndex(h, k, dst) =>
                         /\ C19_Frame(dst)
                         /\ children[Ref(h)][k] = NULL => hnd'[dst] = NULL
             /\ \A path \in DriverPaths :
                   /\ \A h \in Handles :
                         findChild(h, path, dst) =>
                             /\ C19_Frame(dst)
                             /\ C18_Reach(Ref(h), path) = NULL => hnd'[dst] = NULL
                   /\ treeFind(path, dst) =>
                         /\ C19_Frame(dst)
                         /\ C18_Reach(root, path) = NULL => hnd'[dst] = NULL
       /\ \A h \in Receivers : \A k \in DriverKeys :
             callContainsChild(h, k) => HeapSame /\ pc' = "ready" /\ hnd' = hnd
       /\ callContains => HeapSame /\ pc' = "ready" /\ hnd' = hnd
C19_LookupsNeverCreate == [][C19_Step]_vars

\* C19 witness: the child of the root under key 0 was asked for a child it
\* does not have, the result is a null Node and the graph has the two nodes
\* it had
C19_Witness ==
    /\ calls = 2
    /\ nodes = 2
    /\ alive = {1, 2}
    /\ hnd["a"] = 2
    /\ hnd["b"] = NULL
    /\ children[root][0] = 2
    /\ ChildKeys(children, 2) = {}
    /\ ChildKeys(children, root) = {0}

\* C20: the mutable index by path creates the path. tree[path] returns a
\* non-null node n with n.key() = path and n.depth() = the length of path;
\* it creates exactly the missing segments, as nodes without a value, and
\* leaves every node that existed as it was, with its value, its parent and
\* its other children; afterwards find(path) is n and contains(path) holds.
C20_Missing(path) ==
    Cardinality({l \in 1..Len(path) : C18_Reach(root, SubSeq(path, 1, l)) = NULL})
C20_Indexed(path, dst) ==
    LET n == hnd'[dst]
    IN  /\ pc' = "ready"
        /\ n # NULL
        /\ key(alive', parent', children', n) = path
        /\ depth(alive', parent', n) = Len(path)
        /\ nodes' = nodes + C20_Missing(path)
        /\ \A m \in (nodes + 1)..nodes' : m \in alive' /\ value'[m] = NoValue
        /\ \A m \in alive \cap alive' :
              /\ value'[m] = value[m]
              /\ parent'[m] = parent[m]
              /\ \A k \in Keys : children[m][k] # NULL => children'[m][k] = children[m][k]
        /\ hnd[dst] = NULL => alive \subseteq alive'
        /\ find(children', root', path) = n
        /\ contains(children', root', path)
C20_Step ==
    \A path \in DriverPaths : \A dst \in Handles :
        indexPath(path, dst) => C20_Indexed(path, dst)
C20_IndexByPathCreates == [][C20_Step]_vars

\* C21: swap is a pointer swap. After swap(x, y) on two Node handles x holds
\* the NodeData y held and y the one x held, no NodeData is modified, none
\* is created or destroyed, and both WeakNodes resolve through toNode() to
\* what they resolved to before; swapping the two WeakNodes exchanges what
\* the two resolve to and leaves the Node handles and every NodeData alone.
C21_Step ==
    /\ \A x, y \in Handles :
          swap(x, y) =>
              /\ pc' = "ready"
              /\ hnd'[x] = hnd[y]
              /\ hnd'[y] = hnd[x]
              /\ \A z \in Handles \ {x, y} : hnd'[z] = hnd[z]
              /\ HeapSame
              /\ toStrongRef(alive', weak') = toStrongRef(alive, weak)
              /\ toStrongRef(alive', weakSwap') = toStrongRef(alive, weakSwap)
    /\ swapWeak =>
          /\ pc' = "ready"
          /\ toStrongRef(alive', weak') = toStrongRef(alive, weakSwap)
          /\ toStrongRef(alive', weakSwap') = toStrongRef(alive, weak)
          /\ hnd' = hnd
          /\ HeapSame
C21_SwapIsPointerSwap == [][C21_Step]_vars

\* C21 witness: one call after the two nodes and their WeakNodes were made
\* the handles hold the nodes the other way round, and each WeakNode
\* resolves to the node it was taken of
C21_Witness ==
    /\ calls = 1
    /\ hnd["a"] = 3
    /\ hnd["b"] = 2
    /\ toStrongRef(alive, weak) = 2
    /\ toStrongRef(alive, weakSwap) = 3
    /\ value[2] = 0
    /\ value[3] = 1

\* C22: removeChild. p.removeChild(k) returns true exactly when p had a child
\* under k; afterwards p has none under k, p's child count is one less if it
\* returned true and the same otherwise, p's other children and p's value
\* are as before, and the removed child is destroyed, so that a WeakNode to
\* it resolves to null, when nothing else held it (no handle, tree or
\* iterator and no other child entry).
C22_OtherHolder(c, p, k) ==
    \/ c \in External(root, hnd, iter)
    \/ \E m \in alive : \E j \in Keys : children[m][j] = c /\ <<m, j>> # <<p, k>>
C22_Removed(h, k) ==
    LET p == Ref(h)
        c == children[p][k]
    IN  /\ pc' = "ready"
        /\ removeChildReturns(children, p, k) = containsChild(children, p, k)
        /\ p \in alive'
        /\ ~containsChild(children', p, k)
        /\ childCount(children', p) =
              childCount(children, p) - (IF removeChildReturns(children, p, k) THEN 1 ELSE 0)
        /\ \A j \in Keys \ {k} : children'[p][j] = children[p][j]
        /\ value'[p] = value[p]
        /\ (c # NULL /\ ~C22_OtherHolder(c, p, k)) =>
              /\ c \notin alive'
              /\ weak = c => toStrongRef(alive', weak') = NULL
C22_Step ==
    \/ nodes' # nodes
    \/ hnd' # hnd
    \/ iter' # iter
    \/ \A h \in Receivers : \A k \in DriverKeys : removeChild(h, k) => C22_Removed(h, k)
C22_RemoveChild == [][C22_Step]_vars

\* C22 witness: the root had a child under key 0, held by a handle too, and
\* a child with a value under key 1; the first was removed, which only
\* removeChild does without touching its parent link, and the second is as
\* it was
C22_Witness ==
    /\ calls = 3
    /\ nodes = 3
    /\ alive = {1, 2, 3}
    /\ hnd["a"] = 2
    /\ parent[2] = root
    /\ ChildKeys(children, root) = {1}
    /\ children[root][1] = 3
    /\ value[3] # NoValue
    /\ parent[3] = root

\* C23: Tree::clear. After tree.clear() the root has no value and no
\* children, it is non-null and the same NodeData as before, so that the
\* handles and WeakNodes that referred to it still do, contains(k) is false
\* for every key, begin() is end(), and the root's child map is the empty
\* one of a newly made tree, so that tree[k] makes a new child for every k.
C23_Step ==
    clear =>
        /\ pc' = "ready"
        /\ root' = root
        /\ root' # NULL
        /\ root' \in alive'
        /\ ~hasValue(value', root')
        /\ childCount(children', root') = 0
        /\ \A h \in Handles : hnd[h] = root => hnd'[h] = root'
        /\ toStrongRef(alive, weak) = root => toStrongRef(alive', weak') = root'
        /\ \A k \in Keys : ~containsKey(children', root', k)
        /\ \A path \in DriverPaths \ {<<>>} : ~contains(children', root', path)
        /\ beginNode(children', root') = endNode(root')
        /\ children'[root'] = EmptyMap
C23_TreeClear == [][C23_Step]_vars

\* C23 witness: the root had two children, each held by a handle too; one
\* call emptied the root, the handles still hold the former children and
\* begin() is end()
C23_Witness ==
    /\ calls = 3
    /\ hnd["a"] = 2
    /\ hnd["b"] = 3
    /\ parent[2] = root
    /\ parent[3] = root
    /\ root = 1
    /\ ChildKeys(children, root) = {}
    /\ ~hasValue(value, root)
    /\ beginNode(children, root) = endNode(root)

\* C24: makeTree precondition. makeTree(n) for a node n without a parent
\* returns a tree whose root is n, the same NodeData, still held by the
\* caller's handle, with n and everything below it unchanged; makeTree(n)
\* for a node n with a live parent does not return, and so makes no tree
\* whose root has a parent.
C24_Made(h) ==
    LET n == Ref(h)
    IN  IF toStrongRef(alive, parent[n]) = NULL
        THEN /\ pc' = "ready"
             /\ root' = n
             /\ hnd' = hnd
             /\ nodes' = nodes
             /\ Untouched({n} \cup Descendants(children, n))
        ELSE /\ pc' # "ready"
             /\ root' = root
C24_Step == \A h \in Handles : makeTree(h) => C24_Made(h)
C24_MakeTreePrecondition == [][C24_Step]_vars

\* C25: value(d) returns the stored value when the node has one and d
\* otherwise, and changes nothing; takeValue() returns the stored value and
\* leaves the node without a value, or returns a default-constructed value
\* and changes nothing when there was none; setValue(v) and "node = v" lead
\* to the same state, in which the node has the value v; clearValue() leaves
\* the node without a value; and none of them changes any node's children or
\* parent link, or another node's value.
C25_Frame(n) ==
    /\ pc' = "ready"
    /\ alive' = alive
    /\ children' = children
    /\ parent' = parent
    /\ \A m \in alive \ {n} : value'[m] = value[m]
C25_Step ==
    /\ \A h \in Handles, d \in Values :
         callValue(h, d) =>
           /\ valueOr(value, Ref(h), d) =
                (IF hasValue(value, Ref(h)) THEN value[Ref(h)] ELSE d)
           /\ value' = value
           /\ C25_Frame(Ref(h))
    /\ \A h \in Handles :
         takeValue(h) =>
           /\ takeValueReturns(value, Ref(h)) =
                (IF hasValue(value, Ref(h)) THEN value[Ref(h)] ELSE DefaultValue)
           /\ ~hasValue(value', Ref(h))
           /\ ~hasValue(value, Ref(h)) => value' = value
           /\ C25_Frame(Ref(h))
    /\ \A h \in Handles, v \in Values :
         /\ setValue(h, v) <=> operatorAssign(h, v)
         /\ setValue(h, v) \/ operatorAssign(h, v) =>
              /\ hasValue(value', Ref(h))
              /\ value'[Ref(h)] = v
              /\ C25_Frame(Ref(h))
    /\ \A h \in Handles :
         clearValue(h) => ~hasValue(value', Ref(h)) /\ C25_Frame(Ref(h))
C25_ValueSlot == [][C25_Step]_vars

\* the second child got a value, and the first one's was taken
C25_Witness ==
    /\ pc = "ready"
    /\ calls = 2
    /\ hnd["a"] = 2 /\ hnd["b"] = 3
    /\ value[2] = NoValue
    /\ value[3] = 1
    /\ parent[2] = root /\ parent[3] = root
    /\ children[root][0] = 2 /\ children[root][1] = 3

\* C26: "*node = x" on a Node without a value leaves it with the value x, and
\* on a Node with a value replaces that value with x; neither changes any
\* node's children or parent link, or another node's value.
C26_Step ==
    \A h \in Handles, x \in Values :
        starAssign(h, x) =>
            /\ pc' = "ready"
            /\ hasValue(value', Ref(h))
            /\ value'[Ref(h)] = x
            /\ value' = [value EXCEPT ![Ref(h)] = x]
            /\ alive' = alive
            /\ children' = children
            /\ parent' = parent
C26_WriteThroughDereference == [][C26_Step]_vars

\* the child that had no value has one after a single call
C26_Witness ==
    /\ pc = "ready"
    /\ calls = 1
    /\ hnd["b"] = 3
    /\ value[3] = 1
    /\ value[2] = 1
    /\ parent[3] = root /\ children[root][1] = 3

\* C27: dereferencing a node without a value is defined for the mutable Node
\* only. On a ConstNode and on an iterator it reads an empty optional: the
\* call may not return, and it never changes a value, a child map or a parent
\* link. On a Node it returns, and leaves the node with a default-constructed
\* value and all the rest as it was.
C27_Unchanged ==
    /\ value' = value
    /\ alive' = alive
    /\ children' = children
    /\ parent' = parent
C27_Step ==
    /\ \A h \in Handles :
         constStar(h) /\ ~hasValue(value, Ref(h)) => C27_Unchanged
    /\ iterStar /\ ~hasValue(value, iter) => C27_Unchanged
    /\ \A h \in Handles :
         operatorStar(h) /\ ~hasValue(value, Ref(h)) =>
           /\ pc' = "ready"
           /\ hasValue(value', Ref(h))
           /\ value' = [value EXCEPT ![Ref(h)] = DefaultValue]
           /\ alive' = alive
           /\ children' = children
           /\ parent' = parent
C27_OnlyNodeDereferenceGivesValue == [][C27_Step]_vars

\* the statement as made: no dereference, through a Node, a ConstNode or an
\* iterator, gives a value to a node that has none
C27_AnyStar(n) ==
    \/ \E h \in Handles : Ref(h) = n /\ (operatorStar(h) \/ constStar(h))
    \/ iter = n /\ iterStar
C27_DereferenceNeverGivesValue ==
    [][\A n \in alive : C27_AnyStar(n) /\ ~hasValue(value, n) => ~hasValue(value', n)]_vars

\* the child that had no value has the default one after a single call
C27_Witness ==
    /\ pc = "ready"
    /\ calls = 1
    /\ hnd["b"] = 3
    /\ value[3] = DefaultValue
    /\ value[2] = 1
    /\ parent[3] = root /\ children[root][1] = 3

\* C28: two handles compare equal exactly when they refer to the same
\* NodeData or are both falsy. A copy of a handle, the result of child(k) or
\* operator[] for an existing child, the parent() of a node with a live
\* parent and the toNode() of a live WeakNode compare equal to every handle on
\* the NodeData they stand for; the handle clone() returns compares unequal
\* to the cloned node's and to every other handle, though its node has the
\* same value and the same child keys.
C28_EqualTo(dst, n) ==
    /\ pc' = "ready"
    /\ operatorEq(hnd'[dst], n)
    /\ \A x \in Handles \ {dst} : hnd[x] = n => operatorEq(hnd'[dst], hnd'[x])
C28_Step ==
    /\ \A x, y \in Receivers :
         operatorEq(Ref(x), Ref(y)) <=>
            \/ Ref(x) = NULL /\ Ref(y) = NULL
            \/ Ref(x) # NULL /\ Ref(y) # NULL /\ Ref(x) = Ref(y)
    /\ \A dst \in Handles, src \in Receivers :
         NodeCopy(dst, src) => C28_EqualTo(dst, Ref(src))
    /\ \A h \in Receivers, dst \in Handles, k \in DriverKeys :
         (child(h, k, dst) \/ operatorIndex(h, k, dst)) /\ children[Ref(h)][k] # NULL =>
            C28_EqualTo(dst, children[Ref(h)][k])
    /\ \A h \in Receivers, dst \in Handles :
         parentOf(h, dst) /\ toStrongRef(alive, parent[Ref(h)]) # NULL =>
            C28_EqualTo(dst, parent[Ref(h)])
    /\ \A dst \in Handles :
         toNode(dst) /\ toStrongRef(alive, weak) # NULL => C28_EqualTo(dst, weak)
    /\ \A h \in Receivers, dst \in Handles :
         clone(h, dst) /\ pc' = "ready" =>
            /\ value'[hnd'[dst]] = value[Ref(h)]
            /\ ChildKeys(children', hnd'[dst]) = ChildKeys(children, Ref(h))
            /\ ~operatorEq(hnd'[dst], Ref(h))
            /\ \A x \in Receivers \ {dst} :
                 ~operatorEq(hnd'[dst], IF x = "tree" THEN root' ELSE hnd'[x])
C29_Agrees(n) ==
    LET p == toStrongRef(alive, parent[n])
        k == key(alive, parent, children, n)
    IN  /\ k # <<NoReturn>>
        /\ depth(alive, parent, n) = Len(k)
        /\ p # NULL =>
             /\ children[p][subKey(alive, parent, children, n)] = n
             /\ k = Append(key(alive, parent, children, p),
                           subKey(alive, parent, children, n))
C29_DepthKeyAgreement == \A n \in alive : C29_Agrees(n)

\* C30: for every node r without a parent and every node n reachable from r
\* through child maps, r.findChild(n.key()) is n; and whenever
\* r.findChild(path) is a truthy node m, m.key() is path (the empty path
\* giving r itself).
C30_RoundTrip(r) ==
    /\ \A n \in {r} \cup Descendants(children, r) :
         LET k == key(alive, parent, children, n)
         IN  k # <<NoReturn>> /\ find(children, r, k) = n
    /\ \A path \in SubPaths(children, r) :
         key(alive, parent, children, find(children, r, path)) = path
C30_KeyPathRoundTrip ==
    \A r \in alive : toStrongRef(alive, parent[r]) = NULL => C30_RoundTrip(r)

\* C31: a child handle does not keep its parent alive. When a call releases
\* the last strong pointer to a node p (handles, tree root, iterator, the
\* entry in its parent's child map) while a child c of p stays held from
\* outside and is not detached, p is destroyed; c and the nodes below c survive, with values and
\* child maps unchanged unless the call itself was made on one of them;
\* c.parent() is falsy, c.depth() is 0 and c.key() is empty; and every other
\* child of p that nothing else holds is destroyed.
C31_Held(n) ==
    \/ n \in External(root', hnd', iter')
    \/ \E m \in alive' : \E k \in Keys : children'[m][k] = n
C31_CallBelow(D) ==
    \/ \E h, x \in Receivers, k \in DriverKeys : Ref(x) \in D /\ insertChild(h, k, x)
    \/ \E h \in Receivers :
        /\ Ref(h) \in D
        /\ \/ \E dst \in Handles, k \in DriverKeys :
                 operatorIndex(h, k, dst) \/ emplaceChild(h, k, dst) \/ takeChild(h, k, dst)
           \/ \E x \in Receivers, k \in DriverKeys : insertChild(h, k, x)
           \/ \E k \in DriverKeys, v \in Values : indexAssign(h, k, v)
           \/ \E k \in DriverKeys : removeChild(h, k)
           \/ \E v \in Values : setValue(h, v)
           \/ clearChildren(h) \/ clearValue(h) \/ detach(h)
           \/ h = "tree" /\ clear
C31_Released(p, c) ==
    LET D == {c} \cup Descendants(children, c)
    IN  /\ p \notin alive'
        /\ c \in alive'
        /\ \/ C31_CallBelow(D)
           \/ \A n \in D : /\ n \in alive'
                           /\ children'[n] = children[n]
                           /\ value'[n] = value[n]
                           /\ parent'[n] = parent[n]
        /\ toStrongRef(alive', parent'[c]) = NULL
        /\ depth(alive', parent', c) = 0
        /\ key(alive', parent', children', c) = <<>>
        /\ \A k \in Keys :
             LET s == children[p][k]
             IN  s # NULL /\ s # c /\ ~C31_Held(s) => s \notin alive'
C31_Step ==
    \A p \in alive : \A c \in alive \ {p} :
        /\ toStrongRef(alive, parent[c]) = p
        /\ KeysOf(children, p, c) # {}
        /\ parent'[c] = p
        /\ c \in External(root', hnd', iter')
        /\ ~C31_Held(p)
        => C31_Released(p, c)
C31_ChildDoesNotOwnParent == [][C31_Step]_vars

\* C31 witness: the parent is gone, and the child a handle holds is left with
\* a parent link that leads nowhere
C31_Witness ==
    /\ pc = "ready"
    /\ nodes = 3
    /\ alive = {1, 3}
    /\ hnd["b"] = 3
    /\ parent[3] = 2
    /\ toStrongRef(alive, parent[3]) = NULL
    /\ depth(alive, parent, 3) = 0
    /\ key(alive, parent, children, 3) = <<>>

\* C32: the cursor's boundaries are absorbing. -- on an iterator equal to
\* begin() returns and leaves it equal to begin(); ++ on an iterator equal to
\* end() returns and leaves it equal to end(); neither changes the tree; and
\* on a tree whose root has no children both leave the iterator at begin(),
\* which is end().
C32_Stays ==
    /\ pc' = "ready"
    /\ iter' = iter
    /\ UNCHANGED <<nodes, alive, parent, children, value, root, hnd>>
C32_Step ==
    /\ operatorDec /\ iter = beginNode(children, root) =>
          C32_Stays /\ iter' = beginNode(children', root')
    /\ operatorInc /\ iter = endNode(root) =>
          C32_Stays /\ iter' = endNode(root')
    /\ (operatorInc \/ operatorDec) /\ ChildKeys(children, root) = {} /\ iter = root =>
          /\ C32_Stays
          /\ iter' = beginNode(children', root')
          /\ beginNode(children', root') = endNode(root')
====
